---------------------------- MODULE Spec2Model ----------------------------
(***************************************************************************)
(* klog: the directory-backed entry store of pyklog (LogEntry.py and       *)
(* KitchenLog.py).                                                         *)
(*                                                                         *)
(* Representation.  A text is a sequence of lines, every line a sequence   *)
(* of tokens (atomic pieces of a str); the empty line is <<>>.  Python's   *)
(* None is the empty tuple, which no date, path or non-empty value equals. *)
(* A date is <<year, month, day>>.  A record file path is the tuple of the *)
(* path components <<"YYYY", "MM", "DD", "i">> standing for                *)
(* <directory>/YYYY/MM/DD-i.txt, a media directory is                      *)
(* <<"media", "YYYY", "MM", "DD", "i">>.  The disk is two maps: files      *)
(* (record path -> text) and mfiles (<<media directory, name>> -> bytes).  *)
(* The directory is writable (spec section 6): the filesystem errors of    *)
(* the model are the ones the code's own calls produce, a remove() or an   *)
(* open() of a file that does not exist (FileNotFoundError).               *)
(***************************************************************************)
EXTENDS Integers, Sequences, FiniteSets, TLC

VARIABLES
    entries,    \* KitchenLog._entries: the sequence of LogEntry objects
    files,      \* the record files on disk: path -> text
    mfiles,     \* the attachment files on disk: <<media directory, name>> -> bytes
    queue,      \* the running commit(): the dirty entries still to be saved
    calls,      \* the number of calls made on the store and its entries so far
    last        \* what the last step did (for stating the properties)

vars == <<entries, files, mfiles, queue, calls, last>>

None == <<>>

\* ------------------------------------------------------------------ bounds
MaxEntries == 2
MaxMedia == 2
MaxCalls == 7

\* ------------------------------------------------------ small input domains
D1 == <<2024, 1, 5>>
D2 == <<2024, 1, 6>>
Dates == {D1, D2}
Names == {"a.jpg", "b.jpg"}
\* The payloads attach_media is called with: <<name, content>>.
Attachments == {<<"a.jpg", "x">>, <<"a.jpg", "y">>, <<"b.jpg", "y">>}

\* --------------------------------------------------------- generic helpers
Put(f, k, v) == [x \in (DOMAIN f) \cup {k} |-> IF x = k THEN v ELSE f[x]]
Del(f, k) == [x \in (DOMAIN f) \ {k} |-> f[x]]
NoFiles == [x \in {} |-> x]

RECURSIVE SeqToSet(_)
SeqToSet(s) == IF s = <<>> THEN {} ELSE {Head(s)} \cup SeqToSet(Tail(s))

RemoveAt(s, i) == SubSeq(s, 1, i - 1) \o SubSeq(s, i + 1, Len(s))

\* All the orders a set may be listed in (glob's result, iteration of a set).
RECURSIVE Orders(_)
Orders(S) ==
    IF S = {} THEN {<<>>}
    ELSE UNION {{<<x>> \o o : o \in Orders(S \ {x})} : x \in S}

\* ---------------------------------------------- number and date formatting
TwoDigits == <<"01", "02", "03", "04", "05", "06", "07", "08", "09", "10",
               "11", "12", "13", "14", "15", "16", "17", "18", "19", "20",
               "21", "22", "23", "24", "25", "26", "27", "28", "29", "30", "31">>
Plain == <<"1", "2", "3", "4", "5", "6", "7", "8", "9", "10",
           "11", "12", "13", "14", "15", "16", "17", "18", "19", "20",
           "21", "22", "23", "24", "25", "26", "27", "28", "29", "30", "31">>
Years == <<2024, 2025>>
YearTokens == <<"2024", "2025">>

\* '%d' % n for n >= 0
FormatInt(n) == IF n = 0 THEN "0" ELSE Plain[n]
\* strftime's %m and %d
Format2(n) == TwoDigits[n]
\* strftime's %Y
Format4(y) == YearTokens[CHOOSE k \in 1..Len(Years) : Years[k] = y]

IsInt(s) == s = "0" \/ (\E n \in 1..Len(Plain) : Plain[n] = s \/ TwoDigits[n] = s)
\* int(s); defined where IsInt(s)
ParseInt(s) ==
    IF s = "0" THEN 0
    ELSE CHOOSE n \in 1..Len(Plain) : Plain[n] = s \/ TwoDigits[n] = s
IsYear(s) == \E k \in 1..Len(YearTokens) : YearTokens[k] = s
ParseYear(s) == Years[CHOOSE k \in 1..Len(YearTokens) : YearTokens[k] = s]

DaysInMonth(y, m) ==
    IF m = 2 THEN (IF y % 4 = 0 THEN 29 ELSE 28)
    ELSE IF m \in {4, 6, 9, 11} THEN 30 ELSE 31

\* datetime.strptime(value, '%Y-%m-%d'): the date, or None on ValueError
strptime(value) ==
    IF /\ Len(value) = 5
       /\ value[2] = "-" /\ value[4] = "-"
       /\ IsYear(value[1]) /\ IsInt(value[3]) /\ IsInt(value[5])
       /\ ParseInt(value[3]) \in 1..12
       /\ ParseInt(value[5]) \in 1..DaysInMonth(ParseYear(value[1]), ParseInt(value[3]))
    THEN <<ParseYear(value[1]), ParseInt(value[3]), ParseInt(value[5])>>
    ELSE None

\* str.lower() of one token.  A token is atomic: the tokens with capital
\* letters are listed with their lower-case forms (every spelling of none and
\* the tokens of the texts used here); a token without capitals is its own
\* lower-case form.
CapitalTokens ==
    <<"nonE", "noNe", "noNE", "nOne", "nOnE", "nONe", "nONE", "None", "NonE",
      "NoNe", "NoNE", "NOne", "NOnE", "NONe", "NONE", "Kuechenzeit", "BEGIN",
      "END", "TOPIC", "APPENDIX", "MEDIA", "FOO",
      "Nach den headern muss eine Leerzeile folgen. Alle header sind anpassbar.",
      "Das Speichern einer leeren Datei loescht den Eintrag.",
      "  * Hier kommen ein paar tolle Stichpunkte im Dokuwiki Format">>
LowerTokens ==
    <<"none", "none", "none", "none", "none", "none", "none", "none", "none",
      "none", "none", "none", "none", "none", "none", "kuechenzeit", "begin",
      "end", "topic", "appendix", "media", "foo",
      "nach den headern muss eine leerzeile folgen. alle header sind anpassbar.",
      "das speichern einer leeren datei loescht den eintrag.",
      "  * hier kommen ein paar tolle stichpunkte im dokuwiki format">>

lower(tok) ==
    IF \E k \in 1..Len(CapitalTokens) : CapitalTokens[k] = tok
    THEN LowerTokens[CHOOSE k \in 1..Len(CapitalTokens) : CapitalTokens[k] = tok]
    ELSE tok

parse_defval(value) ==
    IF value = <<>> \/ (Len(value) = 1 /\ lower(value[1]) = "none")
    THEN None ELSE value

parse_ymd(value) ==
    IF parse_defval(value) = None THEN None ELSE strptime(parse_defval(value))

format_defval(value) == IF value = None THEN <<"None">> ELSE value

format_ymd(dt) ==
    IF dt = None THEN format_defval(dt)
    ELSE <<Format4(dt[1]), "-", Format2(dt[2]), "-", Format2(dt[3])>>

\* join('media', date.strftime('%Y/%m/%d'), str(index))
mediadir(date, index) ==
    <<"media", Format4(date[1]), Format2(date[2]), Format2(date[3]), FormatInt(index)>>

\* date.strftime('%Y/%m/%d') + '-%d.txt' % index
fname(date, index) ==
    <<Format4(date[1]), Format2(date[2]), Format2(date[3]), FormatInt(index)>>

\* ------------------------------------------------------------- text codec
Whitespace == {" ", "\t"}

RECURSIVE rstrip(_)
\* str.rstrip() of one line; a mark that ends in a blank (": ", "# ") at the
\* end of a line loses its blank
rstrip(line) ==
    IF line /= <<>> /\ line[Len(line)] \in Whitespace
    THEN rstrip(SubSeq(line, 1, Len(line) - 1))
    ELSE IF line /= <<>> /\ line[Len(line)] = ": "
    THEN Append(SubSeq(line, 1, Len(line) - 1), ":")
    ELSE IF line /= <<>> /\ line[Len(line)] = "# "
    THEN Append(SubSeq(line, 1, Len(line) - 1), "#")
    ELSE line

RECURSIVE DropBlankTail(_)
DropBlankTail(text) ==
    IF text /= <<>> /\ text[Len(text)] = <<>>
    THEN DropBlankTail(SubSeq(text, 1, Len(text) - 1))
    ELSE text

NotCR(tok) == tok /= "\r"

sanitise_entry(log_entry) ==
    LET nocr == [i \in 1..Len(log_entry) |-> SelectSeq(log_entry[i], NotCR)]
        stripped == [i \in 1..Len(nocr) |-> rstrip(nocr[i])]
        body == DropBlankTail(stripped)
    IN  IF body = <<>> THEN << <<>> >> ELSE body

\* line.split(': ', 1): <<key, value>>, or <<line>> when the line has no ': '
SplitHeader(line) ==
    IF \E i \in 1..Len(line) : line[i] = ": "
    THEN LET i == CHOOSE i \in 1..Len(line) :
                    line[i] = ": " /\ \A j \in 1..(i - 1) : line[j] /= ": "
         IN  <<SubSeq(line, 1, i - 1), SubSeq(line, i + 1, Len(line))>>
    ELSE <<line>>

NotComment(line) == ~(line /= <<>> /\ line[1] = "# ")

\* The value of the last header line with this key (a later line overwrites).
LastValue(hs, key) ==
    hs[CHOOSE i \in 1..Len(hs) :
          hs[i][1] = key /\ \A j \in (i + 1)..Len(hs) : hs[j][1] /= key][2]
HasKey(hs, key) == \E i \in 1..Len(hs) : hs[i][1] = key

ParseError(msg) ==
    [error |-> msg, begin |-> None, end |-> None, headers |-> NoFiles, content |-> <<>>]

try_parse(log_entry) ==
    IF log_entry = <<>> THEN ParseError("file is empty")
    ELSE
    LET s == sanitise_entry(log_entry)
        seps == {k \in 1..(Len(s) - 1) : s[k + 1] = <<>>}
    IN  IF seps = {} THEN ParseError("unable to split header and content")
        ELSE
        LET k == CHOOSE k \in seps : \A j \in seps : k <= j
            content == SubSeq(s, k + 2, Len(s))
            lines == SelectSeq(SubSeq(s, 1, k), NotComment)
            hs == [i \in 1..Len(lines) |-> SplitHeader(lines[i])]
        IN  IF \E i \in 1..Len(hs) : Len(hs[i]) /= 2
            THEN ParseError("not enough values to unpack")
            ELSE
            LET begin == IF HasKey(hs, <<"BEGIN">>)
                         THEN parse_ymd(LastValue(hs, <<"BEGIN">>)) ELSE None
                end == IF HasKey(hs, <<"END">>)
                       THEN parse_ymd(LastValue(hs, <<"END">>)) ELSE None
                keys == {hs[i][1] : i \in 1..Len(hs)} \ {<<"BEGIN">>, <<"END">>}
                headers == [key \in keys |-> parse_defval(LastValue(hs, key))]
            IN  IF begin = None THEN ParseError("Missing header: BEGIN")
                ELSE IF <<"TOPIC">> \notin keys THEN ParseError("Missing header: TOPIC")
                ELSE IF <<"APPENDIX">> \notin keys
                     THEN ParseError("Missing header: APPENDIX")
                ELSE IF content = <<>> THEN ParseError("Empty content")
                ELSE [error |-> "", begin |-> begin, end |-> end,
                      headers |-> headers, content |-> content]

\* LogEntry.__str__
str(e) ==
    << <<"BEGIN", ": ">> \o format_ymd(e._begin),
       <<"END", ": ">> \o format_ymd(e._end),
       <<"TOPIC", ": ">> \o format_defval(e._headers[<<"TOPIC">>]),
       <<"APPENDIX", ": ">> \o format_defval(e._headers[<<"APPENDIX">>]),
       <<>> >> \o e._content

\* log_entry_template.render(today = today)
log_entry_template(today) ==
    << <<"# ", "Nach den headern muss eine Leerzeile folgen. Alle header sind anpassbar.">>,
       <<"# ", "Das Speichern einer leeren Datei loescht den Eintrag.">>,
       <<"BEGIN", ": ">> \o today,
       <<"END", ": ", "None">>,
       <<"TOPIC", ": ", "Kuechenzeit">>,
       <<"APPENDIX", ": ", "None">>,
       <<>>,
       <<"  * Hier kommen ein paar tolle Stichpunkte im Dokuwiki Format">> >>

\* ------------------------------------------------------------ LogEntry
\* glob(join(directory, mediadir, '*')): the names in one media directory
MediaNames(ms, mdir) == {k[2] : k \in {x \in DOMAIN ms : x[1] = mdir}}

\* LogEntry.__init__ for a content that parses; glob lists the media
\* directory of (begin, index) in an order of the filesystem's choosing.
LogEntryInit(content, index, ms) ==
    LET p == try_parse(content)
    IN  {[_remove |-> FALSE, _filename |-> None, _filename_date |-> None,
          _dirty |-> FALSE, _removed_media |-> {}, _added_media |-> {},
          _index |-> index, _begin |-> p.begin, _end |-> p.end,
          _headers |-> p.headers, _content |-> p.content, _media |-> media] :
         media \in Orders(MediaNames(ms, mediadir(p.begin, index)))}

\* Mutant of new: the entry is built with index 1.
NewAtIndexOne(date, ms) == LogEntryInit(log_entry_template(format_ymd(date)), 1, ms)

\* LogEntry.new
new(date, ms) == LogEntryInit(log_entry_template(format_ymd(date)), 0, ms)

\* Mutant of dirty: only the flag counts.
DirtyFlagOnly(e) == e._dirty

\* LogEntry.dirty
dirty(e) == e._dirty \/ (e._begin /= e._filename_date)

\* The decoding in LogEntry.set_filename: <<date, index>> of a path
inverse(filename) ==
    LET day == ParseInt(filename[3])
        index == ParseInt(filename[4])
        month == filename[2]
        year == filename[1]
    IN  <<parse_ymd(<<year, "-", month, "-", FormatInt(day)>>), index>>

\* LogEntry.set_filename
set_filename(e, filename) ==
    [e EXCEPT !._filename = filename,
              !._index = inverse(filename)[2],
              !._filename_date = inverse(filename)[1]]

\* LogEntry.reload: the flag is assigned before the text is parsed
reload(e, log_entry, flag) ==
    LET p == try_parse(log_entry)
    IN  IF p.error /= "" THEN [e EXCEPT !._dirty = flag]
        ELSE [e EXCEPT !._dirty = flag, !._begin = p.begin, !._end = p.end,
                       !._headers = p.headers, !._content = p.content]

\* LogEntry.remove_media
remove_media(e, no) ==
    IF no >= Len(e._media) THEN e
    ELSE [e EXCEPT !._media = RemoveAt(e._media, no + 1),
                   !._removed_media = @ \cup {e._media[no + 1]}]

\* LogEntry.remove
remove(e) == [e EXCEPT !._dirty = TRUE, !._remove = TRUE]

\* LogEntry.attach_media
attach_media(e, name, content) ==
    [e EXCEPT !._media = Append(@, name),
              !._added_media = @ \cup {<<name, content>>}]

\* ------------------------------------------------------- LogEntry.save
\* for media in ...: remove(join(mdir, media)), stopping at the first file
\* that does not exist (FileNotFoundError)
RECURSIVE RemoveEach(_, _, _)
RemoveEach(ms, mdir, names) ==
    IF names = <<>> THEN [mfiles |-> ms, ok |-> TRUE]
    ELSE IF <<mdir, Head(names)>> \notin DOMAIN ms THEN [mfiles |-> ms, ok |-> FALSE]
    ELSE RemoveEach(Del(ms, <<mdir, Head(names)>>), mdir, Tail(names))

\* for name, content in ...: open(join(mdir, name), 'wb').write(content)
RECURSIVE WriteEach(_, _, _)
WriteEach(ms, mdir, pairs) ==
    IF pairs = <<>> THEN ms
    ELSE WriteEach(Put(ms, <<mdir, Head(pairs)[1]>>, Head(pairs)[2]), mdir, Tail(pairs))

\* Mutant of MoveOut: the attachment is copied, and the file it was read from
\* is left in the media directory of the old date.
RECURSIVE MoveOutKeepsSource(_, _, _, _)
MoveOutKeepsSource(added, ms, olddir, names) ==
    IF names = <<>> THEN [added |-> added, mfiles |-> ms, ok |-> TRUE]
    ELSE IF <<olddir, Head(names)>> \notin DOMAIN ms
         THEN [added |-> added, mfiles |-> ms, ok |-> FALSE]
    ELSE MoveOutKeepsSource(added \cup {<<Head(names), ms[<<olddir, Head(names)>>]>>},
                            ms, olddir, Tail(names))

\* The relocation loop: every listed attachment is read from the media
\* directory of the old date, queued in _added_media and removed there.
RECURSIVE MoveOut(_, _, _, _)
MoveOut(added, ms, olddir, names) ==
    IF names = <<>> THEN [added |-> added, mfiles |-> ms, ok |-> TRUE]
    ELSE IF <<olddir, Head(names)>> \notin DOMAIN ms
         THEN [added |-> added, mfiles |-> ms, ok |-> FALSE]
    ELSE MoveOut(added \cup {<<Head(names), ms[<<olddir, Head(names)>>]>>},
                 Del(ms, <<olddir, Head(names)>>), olddir, Tail(names))

\* The removal branch of save.
SaveRemove(e, fs, ms) ==
    IF e._filename = None
    THEN [e |-> e, files |-> fs, mfiles |-> ms, ok |-> TRUE, kind |-> "noop"]
    ELSE LET r == RemoveEach(ms, mediadir(e._begin, e._index), e._media)
         IN  IF ~r.ok \/ e._filename \notin DOMAIN fs
             THEN [e |-> e, files |-> fs, mfiles |-> r.mfiles, ok |-> FALSE,
                   kind |-> "remove"]
             ELSE [e |-> e, files |-> Del(fs, e._filename), mfiles |-> r.mfiles,
                   ok |-> TRUE, kind |-> "remove"]

NeedsRelocation(e) == e._filename_date /= None /\ e._begin /= e._filename_date

\* Mutant of SaveRelocate: the old record file is removed and the entry keeps
\* its sourcePath.
SaveRelocateKeepsPath(e, fs, ms) ==
    IF ~NeedsRelocation(e) THEN [e |-> e, files |-> fs, mfiles |-> ms, ok |-> TRUE]
    ELSE LET r == MoveOut(e._added_media, ms,
                          mediadir(e._filename_date, e._index), e._media)
             e1 == [e EXCEPT !._added_media = r.added]
         IN  IF ~r.ok \/ e._filename \notin DOMAIN fs
             THEN [e |-> e1, files |-> fs, mfiles |-> r.mfiles, ok |-> FALSE]
             ELSE [e |-> e1, files |-> Del(fs, e._filename), mfiles |-> r.mfiles,
                   ok |-> TRUE]

\* The relocation branch of save.
SaveRelocate(e, fs, ms) ==
    IF ~NeedsRelocation(e) THEN [e |-> e, files |-> fs, mfiles |-> ms, ok |-> TRUE]
    ELSE LET r == MoveOut(e._added_media, ms,
                          mediadir(e._filename_date, e._index), e._media)
             e1 == [e EXCEPT !._added_media = r.added]
         IN  IF ~r.ok \/ e._filename \notin DOMAIN fs
             THEN [e |-> e1, files |-> fs, mfiles |-> r.mfiles, ok |-> FALSE]
             ELSE [e |-> [e1 EXCEPT !._filename = None],
                   files |-> Del(fs, e._filename), mfiles |-> r.mfiles, ok |-> TRUE]

\* while isfile(join(self._directory, self.fname)): self._index += 1
RECURSIVE Probe(_, _, _)
Probe(date, index, fs) ==
    IF fname(date, index) \in DOMAIN fs THEN Probe(date, index + 1, fs) ELSE index

\* Mutant of SaveAllocate: the probe starts at the index the entry has, not
\* at 0.
SaveAllocateNoReset(e, fs) ==
    IF e._filename /= None THEN e
    ELSE set_filename([e EXCEPT !._index = Probe(e._begin, e._index, fs)],
                      fname(e._begin, Probe(e._begin, e._index, fs)))

\* The allocation branch of save.
SaveAllocate(e, fs) ==
    IF e._filename /= None THEN e
    ELSE set_filename([e EXCEPT !._index = Probe(e._begin, 0, fs)],
                      fname(e._begin, Probe(e._begin, 0, fs)))

\* The queued attachment changes: the removals, then the writes, each in the
\* iteration order of a set.
SaveMedia(e, fs, ms, kind) ==
    LET mdir == mediadir(e._begin, e._index)
    IN  UNION {
          LET r == RemoveEach(ms, mdir, ro)
          IN  IF ~r.ok
              THEN {[e |-> e, files |-> fs, mfiles |-> r.mfiles, ok |-> FALSE,
                     kind |-> kind]}
              ELSE {[e |-> [e EXCEPT !._added_media = {}, !._removed_media = {}],
                     files |-> fs, mfiles |-> WriteEach(r.mfiles, mdir, ao),
                     ok |-> TRUE, kind |-> kind] : ao \in Orders(e._added_media)}
          : ro \in Orders(e._removed_media)}

SaveKind(e) ==
    IF NeedsRelocation(e) THEN "relocate"
    ELSE IF e._filename = None THEN "create" ELSE "update"

\* LogEntry.save: the set of outcomes, each the entry, the disk, whether the
\* call returned (ok) or raised, and the branch taken.
save(e, fs, ms) ==
    IF e._remove THEN {SaveRemove(e, fs, ms)}
    ELSE LET r == SaveRelocate(e, fs, ms)
         IN  IF ~r.ok
             THEN {[e |-> r.e, files |-> r.files, mfiles |-> r.mfiles, ok |-> FALSE,
                    kind |-> "relocate"]}
             ELSE LET e2 == SaveAllocate(r.e, r.files)
                      fs2 == Put(r.files, e2._filename, str(e2))
                  IN  SaveMedia(e2, fs2, r.mfiles, SaveKind(e))

\* ------------------------------------------------------------ the inputs
EntryText(begin, extra) ==
    << <<"BEGIN", ": ">> \o begin,
       <<"END", ": ", "None">>,
       <<"TOPIC", ": ", "Kuechenzeit">>,
       <<"APPENDIX", ": ", "None">> >> \o extra
    \o << <<>>, <<"  * Hier kommen ein paar tolle Stichpunkte im Dokuwiki Format">> >>

GoodTexts == {EntryText(format_ymd(d), <<>>) : d \in Dates}
MediaTexts == {EntryText(format_ymd(D1), << <<"MEDIA", ": ", "a.jpg">> >>)}
BadTexts == {EntryText(<<"2024", "-", "13", "-", "01">>, <<>>)}
ReloadTexts == GoodTexts \cup MediaTexts \cup BadTexts

\* ------------------------------------------------------- the state machine
\* The record of a step: the operation, the entry it acted on (its place in
\* the collection), whether it returned (ok) or raised, the branch it took,
\* the error message, the argument of the call and, for a commit, the entries
\* that were dirty when it started, the ones among them that had no
\* sourcePath and were not pending removal (fresh), and the ones save() was
\* called on so far.
Step(op, entry, ok, kind, error, arg, dirtyAtStart, fresh, saved) ==
    [op |-> op, entry |-> entry, ok |-> ok, kind |-> kind, error |-> error,
     arg |-> arg, dirty |-> dirtyAtStart, fresh |-> fresh, saved |-> saved]

\* KitchenLog.__init__ over an empty directory
Init ==
    /\ entries = <<>>
    /\ files = NoFiles
    /\ mfiles = NoFiles
    /\ queue = <<>>
    /\ calls = 0
    /\ last = Step("init", 0, TRUE, "", "", <<>>, <<>>, <<>>, <<>>)

\* The store is constructed: KitchenLog(directory) has returned.
StoreExists == last.op /= "directory" /\ (last.op = "init" => last.ok)

\* A call is made on a constructed store when no commit is running (one
\* thread, section 5).
Call ==
    /\ StoreExists
    /\ queue = <<>>
    /\ calls < MaxCalls
    /\ calls' = calls + 1

\* KitchenLog.new_entry
NewEntry(date) ==
    /\ Call
    /\ Len(entries) < MaxEntries
    /\ \E e \in new(date, mfiles) : entries' = Append(entries, e)
    /\ last' = Step("new_entry", Len(entries) + 1, TRUE, "", "", date, <<>>, <<>>, <<>>)
    /\ UNCHANGED <<files, mfiles, queue>>

\* entry.reload(text, flag) on the entry get_no(i - 1) returns
Reload(i, text, flag) ==
    /\ Call
    /\ entries' = [entries EXCEPT ![i] = reload(@, text, flag)]
    /\ last' = Step("reload", i, try_parse(text).error = "", "",
                    try_parse(text).error, text, <<>>, <<>>, <<>>)
    /\ UNCHANGED <<files, mfiles, queue>>

\* entry.attach_media(name, content)
AttachMedia(i, name, content) ==
    /\ Call
    /\ Len(entries[i]._media) < MaxMedia
    /\ entries' = [entries EXCEPT ![i] = attach_media(@, name, content)]
    /\ last' = Step("attach_media", i, TRUE, "", "", <<name, content>>, <<>>, <<>>, <<>>)
    /\ UNCHANGED <<files, mfiles, queue>>

\* entry.remove_media(no)
RemoveMedia(i, no) ==
    /\ Call
    /\ entries' = [entries EXCEPT ![i] = remove_media(@, no)]
    /\ last' = Step("remove_media", i, TRUE, "", "", <<no>>, <<>>, <<>>, <<>>)
    /\ UNCHANGED <<files, mfiles, queue>>

\* entry.remove()
Remove(i) ==
    /\ Call
    /\ entries' = [entries EXCEPT ![i] = remove(@)]
    /\ last' = Step("remove", i, TRUE, "", "", <<>>, <<>>, <<>>, <<>>)
    /\ UNCHANGED <<files, mfiles, queue>>

\* [x for x in self._entries if x.dirty]
DirtyList == SelectSeq([i \in 1..Len(entries) |-> i], LAMBDA i : dirty(entries[i]))

\* KitchenLog.commit, entered: the list of the dirty entries is built
Commit ==
    /\ Call
    /\ queue' = DirtyList
    /\ last' = Step("commit", 0, TRUE, "", "", <<>>, DirtyList,
                    SelectSeq(DirtyList, LAMBDA i : entries[i]._filename = None
                                                    /\ ~entries[i]._remove),
                    <<>>)
    /\ UNCHANGED <<entries, files, mfiles>>

\* Mutant of Save: an entry whose removal has been carried out is taken out
\* of the collection.
SaveDropsRemoved ==
    /\ queue /= <<>>
    /\ \E r \in save(entries[Head(queue)], files, mfiles) :
          /\ entries' = IF r.ok /\ r.kind = "remove"
                        THEN RemoveAt(entries, Head(queue))
                        ELSE [entries EXCEPT ![Head(queue)] = r.e]
          /\ files' = r.files
          /\ mfiles' = r.mfiles
          /\ queue' = IF ~r.ok THEN <<>>
                      ELSE IF r.kind = "remove"
                      THEN [k \in 1..(Len(queue) - 1) |->
                              IF queue[k + 1] > Head(queue) THEN queue[k + 1] - 1
                              ELSE queue[k + 1]]
                      ELSE Tail(queue)
          /\ calls' = calls
          /\ last' = Step("save", Head(queue), r.ok, r.kind, "", <<>>, last.dirty,
                          last.fresh, Append(last.saved, Head(queue)))

\* KitchenLog.commit, continued: map() calls save() on the next entry of the
\* list; an exception of save() ends the commit.
Save ==
    /\ queue /= <<>>
    /\ \E r \in save(entries[Head(queue)], files, mfiles) :
          /\ entries' = [entries EXCEPT ![Head(queue)] = r.e]
          /\ files' = r.files
          /\ mfiles' = r.mfiles
          /\ queue' = IF r.ok THEN Tail(queue) ELSE <<>>
          /\ calls' = calls
          /\ last' = Step("save", Head(queue), r.ok, r.kind, "", <<>>, last.dirty,
                          last.fresh, Append(last.saved, Head(queue)))

Next ==
    \/ \E d \in Dates : NewEntry(d)
    \/ \E i \in 1..Len(entries), t \in ReloadTexts, f \in BOOLEAN : Reload(i, t, f)
    \/ \E i \in 1..Len(entries), a \in Attachments : AttachMedia(i, a[1], a[2])
    \/ \E i \in 1..Len(entries), no \in 0..(MaxMedia - 1) : RemoveMedia(i, no)
    \/ \E i \in 1..Len(entries) : Remove(i)
    \/ Commit
    \/ Save

Spec == Init /\ [][Next]_vars

\* ------------------------------------------------------ the codec alone
\* The texts handed to try_parse: every choice of the header lines and of the
\* body.  A header is left out (<<>>) or is one line.
HeaderLine(key, value) == << <<key, ": ">> \o value >>

BeginLines ==
    {<<>>, HeaderLine("BEGIN", format_ymd(D1)),
     HeaderLine("BEGIN", <<"2024", "-", "13", "-", "01">>),
     HeaderLine("BEGIN", <<"None">>)}
EndLines ==
    {<<>>, HeaderLine("END", <<"None">>), HeaderLine("END", format_ymd(D2)),
     HeaderLine("END", <<"junk">>)}
TopicLines ==
    {<<>>, HeaderLine("TOPIC", <<"Kuechenzeit">>), HeaderLine("TOPIC", <<"nOne">>)}
AppendixLines ==
    {<<>>, HeaderLine("APPENDIX", <<"None">>), HeaderLine("APPENDIX", <<"note">>)}
ExtraLines == {<<>>, HeaderLine("FOO", <<"bar">>)}
\* A comment line, and a line that is the comment mark alone.
CommentLines == {<<>>, << <<"# ", "kommentar">> >>, << <<"# ">> >>}
Bodies ==
    {<<>>, << <<>>, <<"  * a">> >>, << <<>>, <<"  * a">>, <<>>, <<"  * b", " ">> >>}

CodecTexts ==
    {c \o b \o e \o t \o a \o x \o body :
        c \in CommentLines, b \in BeginLines, e \in EndLines, t \in TopicLines,
        a \in AppendixLines, x \in ExtraLines, body \in Bodies}

\* The fields try_parse returns, as the entry keeps them.
Fields(e) == <<e._begin, e._end, e._headers, e._content>>

CodecInit ==
    /\ entries = <<>>
    /\ files = NoFiles
    /\ mfiles = NoFiles
    /\ queue = <<>>
    /\ calls = 0
    /\ \E t \in CodecTexts :
          last = Step("text", 0, TRUE, "", "", t, <<>>, <<>>, <<>>)

\* LogEntry(content, 0, directory): try_parse of a text, the one given or the
\* one __str__ has produced
Parse ==
    /\ last.op \in {"text", "str"}
    /\ IF try_parse(last.arg).error = ""
       THEN \E e \in LogEntryInit(last.arg, 0, mfiles) : entries' = <<e>>
       ELSE entries' = <<>>
    /\ last' = Step("try_parse", Len(entries'), try_parse(last.arg).error = "", "",
                    try_parse(last.arg).error, last.arg, <<>>, <<>>, <<>>)
    /\ UNCHANGED <<files, mfiles, queue, calls>>

\* str(entry) of the entry a parse has produced
Serialize ==
    /\ last.op = "try_parse" /\ last.ok
    /\ last' = Step("str", 1, TRUE, "", "", str(entries[1]), <<>>, <<>>, <<>>)
    /\ UNCHANGED <<entries, files, mfiles, queue, calls>>

CodecNext == Parse \/ Serialize

SpecCodec == CodecInit /\ [][CodecNext]_vars

\* ------------------------------------------- construction and lookup
\* The directories a store is constructed over: record files, valid or
\* without BEGIN, and the attachment files next to them.
LoadPaths == {fname(D1, 0), fname(D1, 1), fname(D2, 0)}
CorruptText ==
    << <<"TOPIC", ": ", "Kuechenzeit">>, <<"APPENDIX", ": ", "None">>,
       <<>>, <<"  * Hier kommen ein paar tolle Stichpunkte im Dokuwiki Format">> >>
LoadTexts == {EntryText(format_ymd(D1), <<>>), CorruptText}
Directories == UNION {[ps -> LoadTexts] : ps \in SUBSET LoadPaths}
MediaDirectories == {NoFiles, [k \in {<<mediadir(D1, 0), "a.jpg">>} |-> "x"]}

\* The ordinals get_no is called with.
Ordinals == (0 - MaxEntries - 1)..(MaxEntries + 1)

\* LogEntry.from_file: the entries it may return (one per order glob lists
\* the attachments in), none when try_parse raises
from_file(fs, ms, file) ==
    IF try_parse(fs[file]).error /= "" THEN {}
    ELSE {set_filename(e, file) : e \in LogEntryInit(fs[file], ParseInt(file[4]), ms)}

\* load_entry: from_file's entry, or None for a file that does not parse
load_entry(fs, ms, file) ==
    IF from_file(fs, ms, file) = {} THEN {None} ELSE from_file(fs, ms, file)

\* [load_entry(directory, x) for x in target_entries], filtered of the None
RECURSIVE LoadAll(_, _, _)
LoadAll(fs, ms, order) ==
    IF order = <<>> THEN {<<>>}
    ELSE {(IF e = None THEN <<>> ELSE <<e>>) \o rest :
             e \in load_entry(fs, ms, Head(order)),
             rest \in LoadAll(fs, ms, Tail(order))}

\* self._entries.sort(key=lambda x: x.date, reverse=True): LogEntry has no
\* attribute date, the key function raises AttributeError on the first entry
sort_by_date(loaded) ==
    IF loaded = <<>> THEN [ok |-> TRUE, entries |-> <<>>, error |-> ""]
    ELSE [ok |-> FALSE, entries |-> <<>>, error |-> "AttributeError"]

\* KitchenLog.get_no: the place in the collection of the entry returned (0 for
\* None), or IndexError
get_no(es, no) ==
    IF no < Len(es)
    THEN IF no >= 0 THEN [ok |-> TRUE, entry |-> no + 1, error |-> ""]
         ELSE IF no >= 0 - Len(es)
         THEN [ok |-> TRUE, entry |-> Len(es) + no + 1, error |-> ""]
         ELSE [ok |-> FALSE, entry |-> 0, error |-> "IndexError"]
    ELSE [ok |-> TRUE, entry |-> 0, error |-> ""]

LoadInit ==
    /\ entries = <<>>
    /\ files \in Directories
    /\ mfiles \in MediaDirectories
    /\ queue = <<>>
    /\ calls = 0
    /\ last = Step("directory", 0, TRUE, "", "", <<>>, <<>>, <<>>, <<>>)

\* KitchenLog.__init__ over the directory
Construct ==
    /\ last.op = "directory"
    /\ \E order \in Orders(DOMAIN files) :
         \E loaded \in LoadAll(files, mfiles, order) :
            /\ entries' = sort_by_date(loaded).entries
            /\ last' = Step("init", 0, sort_by_date(loaded).ok, "",
                            sort_by_date(loaded).error, <<>>, <<>>, <<>>, <<>>)
    /\ UNCHANGED <<files, mfiles, queue, calls>>

\* KitchenLog.get_no(no)
GetNo(no) ==
    /\ Call
    /\ last' = Step("get_no", get_no(entries, no).entry, get_no(entries, no).ok, "",
                    get_no(entries, no).error, <<no>>, <<>>, <<>>, <<>>)
    /\ UNCHANGED <<entries, files, mfiles, queue>>

LoadNext ==
    \/ Construct
    \/ \E d \in Dates : NewEntry(d)
    \/ \E no \in Ordinals : GetNo(no)

SpecLoad == LoadInit /\ [][LoadNext]_vars

\* ------------------------------------------------------------ the claims
\* A commit has run to its end: by returning or by an exception of a save().
CommitEnded == queue = <<>> /\ last.op \in {"commit", "save"}

\* save() has just returned normally on an entry not pending removal.
Saved == last.op = "save" /\ last.ok /\ ~entries[last.entry]._remove

\* C1: commit() calls save() on every entry that is dirty when it starts,
\* also on the ones that follow an entry whose save() failed.
C1_CommitSavesEveryDirtyEntry == CommitEnded => last.saved = last.dirty

\* C2: after save() has returned on an entry that is not pending removal, the
\* flag is cleared and sourceDate is begin, so the entry is not dirty.
C2_SavedEntryIsClean ==
    Saved => /\ ~entries[last.entry]._dirty
             /\ entries[last.entry]._filename_date = entries[last.entry]._begin
             /\ ~dirty(entries[last.entry])

\* C3: a save() that relocates an entry with attachments on disk and no
\* attachment change queued (begin changed from D to D' by reload) leaves no
\* record file at pathFor(D, i) and none of the attachments in
\* mediaDirFor(D, i), and leaves the record file and every attachment, with
\* the bytes it had, under the path and media directory of (D', j).
C3_RelocationMovesRecordAndMedia ==
    [][(/\ last'.op = "save" /\ last'.ok /\ last'.kind = "relocate"
        /\ entries[last'.entry]._added_media = {}
        /\ entries[last'.entry]._removed_media = {})
       => LET before == entries[last'.entry]
              after == entries'[last'.entry]
              olddir == mediadir(before._filename_date, before._index)
              newdir == mediadir(after._begin, after._index)
          IN  /\ after._begin /= before._filename_date
              /\ fname(before._filename_date, before._index) \notin DOMAIN files'
              /\ fname(after._begin, after._index) \in DOMAIN files'
              /\ files'[fname(after._begin, after._index)] = str(after)
              /\ \A n \in SeqToSet(before._media) :
                    /\ <<olddir, n>> \notin DOMAIN mfiles'
                    /\ <<newdir, n>> \in DOMAIN mfiles'
                    /\ mfiles'[<<newdir, n>>] = mfiles[<<olddir, n>>]]_vars

C3_Witness ==
    /\ Saved /\ last.kind = "relocate"
    /\ Cardinality(SeqToSet(entries[last.entry]._media)) = 2
    /\ \A n \in SeqToSet(entries[last.entry]._media) :
          <<mediadir(entries[last.entry]._begin, entries[last.entry]._index), n>>
              \in DOMAIN mfiles

\* The record files of one date.
FilesOf(fs, date) == {p \in DOMAIN fs : inverse(p)[1] = date}

\* C4: a save() of an entry without sourcePath (new or just relocated)
\* assigns the smallest index i >= 0 for which pathFor(begin, i) is not on
\* disk, whatever indices the date already has.
C4_SmallestFreeIndex ==
    [][(/\ last'.op = "save" /\ last'.kind \in {"create", "relocate"}
        /\ entries'[last'.entry]._filename /= entries[last'.entry]._filename)
       => LET after == entries'[last'.entry]
          IN  /\ after._filename = fname(after._begin, after._index)
              /\ after._filename \notin DOMAIN files
              /\ \A k \in 0..(after._index - 1) : fname(after._begin, k) \in DOMAIN files]_vars

\* An index was allocated below one that the date already has.
C4_Witness ==
    /\ Saved /\ last.kind \in {"create", "relocate"}
    /\ \E p \in FilesOf(files, entries[last.entry]._begin) :
          inverse(p)[2] > entries[last.entry]._index

\* The place of entry i among the fresh entries of its begin.
RankOf(i) ==
    Cardinality({j \in SeqToSet(last.fresh) :
        entries[j]._begin = entries[i]._begin /\ j < i})

\* C5: after a commit, two entries of one begin that were created by
\* new_entry and not yet saved have two distinct record files on disk; when
\* the date has no other record file, their indices follow the order of
\* their creation (0 for the first, 1 for the second).
C5_NewEntriesGetDistinctFiles ==
    CommitEnded =>
      \A i \in SeqToSet(last.fresh), j \in SeqToSet(last.fresh) :
        (i < j /\ entries[i]._begin = entries[j]._begin) =>
          /\ entries[i]._filename /= None
          /\ entries[j]._filename /= None
          /\ entries[i]._filename /= entries[j]._filename
          /\ {entries[i]._filename, entries[j]._filename} \subseteq DOMAIN files
          /\ ((FilesOf(files, entries[i]._begin)
                  = {entries[k]._filename : k \in {c \in SeqToSet(last.fresh) :
                                                    entries[c]._begin = entries[i]._begin}})
              => (entries[i]._index = RankOf(i) /\ entries[j]._index = RankOf(j)))

\* C6: no two entries of the collection have the same sourcePath.
C6_NoSharedPath ==
    \A i \in 1..Len(entries), j \in 1..Len(entries) :
        (i /= j /\ entries[i]._filename /= None) =>
            entries[i]._filename /= entries[j]._filename

\* C7: after save() has returned on an entry not pending removal, the date
\* and index decoded from its sourcePath are its begin and its index.
C7_PathDecodesToBeginAndIndex ==
    Saved => inverse(entries[last.entry]._filename)
                = <<entries[last.entry]._begin, entries[last.entry]._index>>

C7_Witness == Saved /\ last.kind = "relocate"

\* C8: save() of an entry pending removal touches no file when the entry was
\* never persisted; otherwise (its record file being on disk) it returns,
\* having deleted the record file and every file of the entry's media
\* directory and written nothing.
C8_RemovalDeletesRecordAndMedia ==
    [][(last'.op = "save" /\ entries[last'.entry]._remove)
       => LET e == entries[last'.entry]
          IN  IF e._filename = None
              THEN files' = files /\ mfiles' = mfiles
              ELSE e._filename \in DOMAIN files =>
                     /\ last'.ok
                     /\ e._filename \notin DOMAIN files'
                     /\ MediaNames(mfiles', mediadir(e._filename_date, e._index)) = {}
                     /\ DOMAIN files' \subseteq DOMAIN files
                     /\ DOMAIN mfiles' \subseteq DOMAIN mfiles]_vars

\* C9: an entry whose save() raised is still dirty.
C9_FailedSaveStaysDirty ==
    (last.op = "save" /\ ~last.ok) => dirty(entries[last.entry])

\* The filenames the MEDIA lines of a text name.
MediaNamed(text) ==
    {text[k][3] : k \in {k \in 1..Len(text) :
        Len(text[k]) >= 3 /\ text[k][1] = "MEDIA" /\ text[k][2] = ": "}}

\* C10: reload(text) with a MEDIA line naming a file that is not in the
\* entry's attachment list fails with "direct adding of media is not
\* supported".
C10_DirectAddingOfMediaRejected ==
    (/\ last.op = "reload"
     /\ \E n \in MediaNamed(last.arg) : n \notin SeqToSet(entries[last.entry]._media))
    => (~last.ok /\ last.error = "direct adding of media is not supported")

\* C11: a reload() that returns, with a text that has no MEDIA line for an
\* attachment of the entry, takes that filename out of the entry's media list
\* and queues it for deletion at the next save().
C11_OmittedMediaLineQueuesDeletion ==
    [][(last'.op = "reload" /\ last'.ok)
       => \A n \in SeqToSet(entries[last'.entry]._media) \ MediaNamed(last'.arg) :
             /\ n \notin SeqToSet(entries'[last'.entry]._media)
             /\ n \in entries'[last'.entry]._removed_media]_vars

\* C12: new_entry(date) appends exactly one entry, with begin = date, index 0
\* and no sourcePath, to the collection and changes no file on disk.
C12_NewEntryAppendsAndWritesNothing ==
    [][last'.op = "new_entry"
       => /\ Len(entries') = Len(entries) + 1
          /\ SubSeq(entries', 1, Len(entries)) = entries
          /\ entries'[Len(entries')]._begin = last'.arg
          /\ entries'[Len(entries')]._index = 0
          /\ entries'[Len(entries')]._filename = None
          /\ files' = files
          /\ mfiles' = mfiles]_vars

\* new_entry was called on a store that has an entry and files on disk.
C12_Witness ==
    /\ last.op = "new_entry" /\ last.entry = 2
    /\ entries[2]._begin = last.arg /\ entries[2]._filename = None
    /\ DOMAIN files /= {} /\ DOMAIN mfiles /= {}

\* C13: an entry is dirty whenever its flag is set or its begin differs from
\* its sourceDate: an entry never saved is dirty, and so is an entry whose
\* begin a reload() has changed, whatever flag the reload was called with.
C13_DirtyWhenFlaggedOrMoved ==
    \A i \in 1..Len(entries) :
        /\ (entries[i]._dirty \/ entries[i]._begin /= entries[i]._filename_date)
              => dirty(entries[i])
        /\ entries[i]._filename = None => dirty(entries[i])
        /\ (/\ last.op = "reload" /\ last.ok /\ last.entry = i
            /\ try_parse(last.arg).begin /= entries[i]._filename_date)
              => dirty(entries[i])

\* A saved entry was reloaded without the flag, with a text of another begin.
C13_Witness ==
    /\ last.op = "reload" /\ last.ok
    /\ ~entries[last.entry]._dirty
    /\ entries[last.entry]._filename /= None
    /\ entries[last.entry]._filename \in DOMAIN files
    /\ try_parse(last.arg).begin /= entries[last.entry]._filename_date
    /\ dirty(entries[last.entry])

\* C14: the fields of a successful parse, serialised by __str__ and parsed
\* again, come back equal: begin, end, the headers (TOPIC, APPENDIX and the
\* unrecognised ones) and the body.
C14_ParseSerializeRoundTrip ==
    [][(last.op = "str" /\ last'.op = "try_parse")
       => (last'.ok /\ Fields(entries'[1]) = Fields(entries[1]))]_vars

\* The header block of a text: the lines before its first empty line.
HeaderBlock(text) ==
    LET s == sanitise_entry(text)
        seps == {k \in 1..Len(s) : s[k] = <<>>}
    IN  IF seps = {} THEN s
        ELSE SubSeq(s, 1, (CHOOSE k \in seps : \A j \in seps : k <= j) - 1)

\* The values the header lines of a text give to a key.
ValuesOf(text, key) ==
    {SplitHeader(HeaderBlock(text)[i])[2] :
        i \in {j \in 1..Len(HeaderBlock(text)) :
                 /\ NotComment(HeaderBlock(text)[j])
                 /\ Len(SplitHeader(HeaderBlock(text)[j])) = 2
                 /\ SplitHeader(HeaderBlock(text)[j])[1] = <<key>>}}

IsDate(value) == strptime(value) /= None

\* C15: try_parse raises on a text whose BEGIN line has a non-empty value that
\* is not a YYYY-MM-DD date, or whose END line has a value that is neither
\* empty, nor None, nor such a date.
C15_InvalidDateRejected ==
    (/\ last.op = "try_parse"
     /\ \/ \E v \in ValuesOf(last.arg, "BEGIN") : v /= <<>> /\ ~IsDate(v)
        \/ \E v \in ValuesOf(last.arg, "END") : parse_defval(v) /= None /\ ~IsDate(v))
    => ~last.ok

\* C16: try_parse accepts a text with a valid BEGIN line, a TOPIC line and a
\* body, and neither an END nor an APPENDIX line; end and appendix are absent
\* in the result.
C16_AppendixOptional ==
    (/\ last.op = "try_parse"
     /\ ValuesOf(last.arg, "BEGIN") /= {}
     /\ \A v \in ValuesOf(last.arg, "BEGIN") : IsDate(v)
     /\ ValuesOf(last.arg, "TOPIC") /= {}
     /\ ValuesOf(last.arg, "END") = {}
     /\ ValuesOf(last.arg, "APPENDIX") = {}
     /\ \A i \in 1..Len(HeaderBlock(last.arg)) :
           NotComment(HeaderBlock(last.arg)[i])
           => Len(SplitHeader(HeaderBlock(last.arg)[i])) = 2
     /\ Len(sanitise_entry(last.arg)) > Len(HeaderBlock(last.arg)) + 1)
    => /\ last.ok
       /\ entries[1]._end = None
       /\ (<<"APPENDIX">> \in DOMAIN entries[1]._headers
              => entries[1]._headers[<<"APPENDIX">>] = None)

\* C17: construction over a directory with record files that parse and record
\* files that do not returns, and the collection holds one entry per file
\* that parses, with the index of the file's name.
C17_ConstructionSkipsCorruptFiles ==
    last.op = "init"
    => /\ last.ok
       /\ Len(entries) = Cardinality({f \in DOMAIN files : try_parse(files[f]).error = ""})
       /\ {entries[i]._filename : i \in 1..Len(entries)}
             = {f \in DOMAIN files : try_parse(files[f]).error = ""}
       /\ \A i \in 1..Len(entries) : entries[i]._index = ParseInt(entries[i]._filename[4])

\* C18: get_no(i) returns the entry at place i of the collection when
\* 0 <= i < size, and returns None, without raising, for every other i.
C18_ByIndexInRangeOrAbsent ==
    last.op = "get_no"
    => /\ last.ok
       /\ last.entry = IF 0 <= last.arg[1] /\ last.arg[1] < Len(entries)
                       THEN last.arg[1] + 1 ELSE 0

\* The order of two dates.
DateBefore(a, b) ==
    \/ a[1] < b[1]
    \/ (a[1] = b[1] /\ a[2] < b[2])
    \/ (a[1] = b[1] /\ a[2] = b[2] /\ a[3] < b[3])

\* C19: the collection is sorted by begin, latest first.
C19_SortedByBeginDescending ==
    \A i \in 1..Len(entries), j \in 1..Len(entries) :
        i < j => ~DateBefore(entries[i]._begin, entries[j]._begin)

\* C20: only new_entry changes the size of the collection, by appending one
\* entry; every other step leaves the collection as long as it was and
\* changes no entry but the one it acts on, so an entry whose files a removal
\* has deleted is still there.
C20_OnlyNewEntryResizes ==
    [][/\ last'.op = "new_entry"
          => (Len(entries') = Len(entries) + 1
              /\ SubSeq(entries', 1, Len(entries)) = entries)
       /\ last'.op /= "new_entry"
          => (/\ Len(entries') = Len(entries)
              /\ \A i \in 1..Len(entries) :
                    i /= last'.entry => entries'[i] = entries[i])]_vars

\* A removal has deleted the record file of an entry, which is still in the
\* collection, next to another entry.
C20_Witness ==
    /\ last.op = "save" /\ last.ok /\ last.kind = "remove"
    /\ Len(entries) = 2
    /\ entries[last.entry]._remove
    /\ entries[last.entry]._filename /= None
    /\ entries[last.entry]._filename \notin DOMAIN files

\* C21: the filenames of an entry's media list are pairwise distinct.
C21_MediaNamesDistinct ==
    \A i \in 1..Len(entries) :
        \A a \in 1..Len(entries[i]._media), b \in 1..Len(entries[i]._media) :
            a /= b => entries[i]._media[a] /= entries[i]._media[b]

\* C22: a save() of one entry leaves on disk, with their contents, the record
\* file and the attachment files of every other entry that is not pending
\* removal.
C22_SaveSparesOtherEntries ==
    [][last'.op = "save"
       => \A j \in 1..Len(entries) :
            (/\ j /= last'.entry
             /\ ~entries[j]._remove
             /\ entries[j]._filename /= None
             /\ entries[j]._filename \in DOMAIN files)
            => /\ entries[j]._filename \in DOMAIN files'
               /\ files'[entries[j]._filename] = files[entries[j]._filename]
               /\ \A n \in MediaNames(mfiles, mediadir(entries[j]._filename_date,
                                                       entries[j]._index)) :
                     LET k == <<mediadir(entries[j]._filename_date, entries[j]._index), n>>
                     IN  k \in DOMAIN mfiles' /\ mfiles'[k] = mfiles[k]]_vars

\* C23: after save() has returned on an entry not pending removal, the files
\* of its media directory are the filenames of its media list.
C23_MediaDirectoryMatchesList ==
    Saved => MediaNames(mfiles, mediadir(entries[last.entry]._begin,
                                         entries[last.entry]._index))
                = SeqToSet(entries[last.entry]._media)

\* C24: the entry new_entry returns has an empty media list.
C24_NewEntryHasNoMedia ==
    last.op = "new_entry" => entries[last.entry]._media = <<>>

\* C25: a save() that relocates an entry (its record file being on disk) while
\* attachment changes are queued returns; every file attached since the last
\* save is in the new media directory, every file detached since (and not
\* attached again) is in neither the old nor the new one.
C25_RelocationAppliesQueuedMedia ==
    [][(/\ last'.op = "save"
        /\ ~entries[last'.entry]._remove
        /\ NeedsRelocation(entries[last'.entry])
        /\ entries[last'.entry]._filename \in DOMAIN files
        /\ (entries[last'.entry]._added_media /= {}
               \/ entries[last'.entry]._removed_media /= {}))
       => LET before == entries[last'.entry]
              after == entries'[last'.entry]
              olddir == mediadir(before._filename_date, before._index)
              newdir == mediadir(after._begin, after._index)
          IN  /\ last'.ok
              /\ \A a \in before._added_media : <<newdir, a[1]>> \in DOMAIN mfiles'
              /\ \A n \in before._removed_media :
                    n \notin {a[1] : a \in before._added_media}
                    => /\ <<olddir, n>> \notin DOMAIN mfiles'
                       /\ <<newdir, n>> \notin DOMAIN mfiles']_vars

\* C26: an attach_media() or a remove_media() that changes a persisted entry
\* which was not dirty leaves it dirty.
C26_MediaChangeMakesDirty ==
    [][(/\ last'.op \in {"attach_media", "remove_media"}
        /\ entries[last'.entry]._filename /= None
        /\ ~dirty(entries[last'.entry])
        /\ entries'[last'.entry] /= entries[last'.entry])
       => dirty(entries'[last'.entry])]_vars

\* C27: a reload() that raises leaves the entry exactly as it was, the flag
\* included.
C27_FailedReloadChangesNothing ==
    [][(last'.op = "reload" /\ ~last'.ok)
       => entries'[last'.entry] = entries[last'.entry]]_vars

=============================================================================
